---- MODULE Spec2Model ----
(***************************************************************************)
(* The staged configuration pipeline of src/src/main_tenpy.py: five tools  *)
(* that read one YAML document at a path, change their own sections and    *)
(* write it back.  The document is a nested mapping; a mapping is modelled *)
(* as a TLA+ function whose DOMAIN is its key set.                         *)
(*                                                                         *)
(* Numbers that may be fractional (the spin S, the total charge, the       *)
(* occupation counts before int()) are held in tenths: 0.5 is 5, 1.0 is    *)
(* 10, 0.3 is 3.  Lattice extents and site counts are plain integers.      *)
(***************************************************************************)
EXTENDS Integers, Sequences, FiniteSets, TLC

VARIABLES
    file,       \* the YAML file at the path: [exists, data]
    lastCall,   \* the last tool call: its stage and arguments
    repeated,   \* whether that call repeated the call before it
    result,     \* how the last call ended: "ok" or the error raised
    reported,   \* the paths the last call reported: <<>> or <<result, log>>
    calls,      \* concurrent callers: each one's position, call and loaded data
    overlapped, \* whether a caller loaded while another held loaded data
    yamlFile,   \* the file as YAML text: [exists, text]
    loaded,     \* what load_yaml last returned from the YAML text
    connections, \* SSHConnectionManager.connections: session id -> client
    clients,    \* the SSH clients made so far: open or closed, commands run
    sshHistory, \* session ids returned by create_connection, and those closed
    sshCall     \* the last call of the SSH manager and what it returned

vars == <<file, lastCall, repeated, result, reported, calls, overlapped,
          yamlFile, loaded, connections, clients, sshHistory, sshCall>>

\* The variables of the SSH connection manager.
sshVars == <<connections, clients, sshHistory, sshCall>>

\* The SSH connection manager is not looked at.
SshAtRest ==
    /\ connections = <<>>
    /\ clients = <<>>
    /\ sshHistory = <<>>
    /\ sshCall = <<>>

\* The variables of the concurrent callers, of the YAML text and of the SSH
\* connection manager.
otherVars == <<calls, overlapped, yamlFile, loaded, sshVars>>

-----------------------------------------------------------------------------
(* Bounds of the model. *)

\* Largest lattice extent a caller passes as Lx or Ly.
MaxL == 2

\* Largest site count of a lattice a caller asks stage 1 for.
MaxSites == 4

-----------------------------------------------------------------------------
(* Python dict operations on mappings. *)

EmptyDict == [k \in {} |-> 0]

Has(m, k) == k \in DOMAIN m

\* m[k] = v
Put(m, k, v) == [j \in DOMAIN m \cup {k} |-> IF j = k THEN v ELSE m[j]]

\* m.pop(k, None)
Pop(m, k) == [j \in DOMAIN m \ {k} |-> m[j]]

\* m.get(k, dflt)
Get(m, k, dflt) == IF k \in DOMAIN m THEN m[k] ELSE dflt

\* for name, val in p.items(): m[name] = val
Update(m, p) == [j \in DOMAIN m \cup DOMAIN p |-> IF j \in DOMAIN p THEN p[j] ELSE m[j]]

-----------------------------------------------------------------------------
(* The document store. *)

NoFile == [exists |-> FALSE, data |-> EmptyDict]

\* load_yaml returns the mapping at the path; an absent path yields {}.
load_yaml_data(f) == IF f.exists THEN f.data ELSE EmptyDict

\* load_yaml's effect on the path: an absent file is created holding {}.
load_yaml_file(f) == IF f.exists THEN f ELSE [exists |-> TRUE, data |-> EmptyDict]

\* dump_yaml writes the whole mapping, creating the file.
dump_yaml(data) == [exists |-> TRUE, data |-> data]

\* A tool call arrives: it is recorded, with whether it repeats the last one
\* and the paths it reports.
CalledReporting(call, paths) ==
    /\ lastCall' = call
    /\ repeated' = (call = lastCall)
    /\ reported' = paths
    /\ UNCHANGED otherVars

\* A call of a stage that reports no path.
Called(call) == CalledReporting(call, <<>>)

-----------------------------------------------------------------------------
(* Module constants of main_tenpy.py. *)

_ALLOWED_LATTICES_1D == {"Chain"}
_ALLOWED_LATTICES_2D == {"Square", "Triangular", "Honeycomb", "Kagome"}
_ALLOWED_BC == {"open", "periodic"}

\* Fixed values written by the stages.
MODEL_CLASS == "SpinModel"
SPIN_S == 5                           \* S = 0.5, in tenths
BC_MPS == "finite"
METHOD == "lat_product_state"

-----------------------------------------------------------------------------
(* The external model factory tenpy.models.SpinModel(model_params): what   *)
(* the stages read from the object it builds.  Missing parameters take the *)
(* library's defaults.                                                     *)

KnownLattices == _ALLOWED_LATTICES_1D \cup _ALLOWED_LATTICES_2D

\* Sites per unit cell of each lattice class.
UnitCell(lat) ==
    CASE lat = "Honeycomb" -> 2
      [] lat = "Kagome"    -> 3
      [] OTHER             -> 1

ModelLatticeName(mp) == Get(mp, "lattice", "Chain")

ModelIs1D(mp) == ModelLatticeName(mp) \in _ALLOWED_LATTICES_1D

\* The constructor rejects a parameter set it cannot build a lattice and a
\* spin-S site from.
ModelBuilds(mp) ==
    /\ ModelLatticeName(mp) \in KnownLattices
    /\ Get(mp, "S", 5) \in {5, 10, 15, 20}
    /\ Get(mp, "bc_MPS", "finite") \in {"finite", "infinite", "segment"}
    /\ Get(mp, "bc_x", "open") \in {"open", "periodic"}
    /\ Get(mp, "conserve", "best") \in {"best", "Sz", "parity", "None"}
    /\ IF ModelIs1D(mp)
       THEN Get(mp, "L", 2) >= 1
       ELSE /\ Get(mp, "Lx", 1) >= 1
            /\ Get(mp, "Ly", 4) >= 1
            /\ Get(mp, "bc_y", "cylinder") \in {"cylinder", "ladder", "open", "periodic"}

\* lat.shape: the extents followed by the unit-cell size.
LatShape(mp) ==
    IF ModelIs1D(mp)
    THEN <<Get(mp, "L", 2), 1>>
    ELSE <<Get(mp, "Lx", 1), Get(mp, "Ly", 4), UnitCell(ModelLatticeName(mp))>>

RECURSIVE Prod(_)
Prod(s) == IF s = <<>> THEN 1 ELSE Head(s) * Prod(Tail(s))

\* lat.N_sites
N_sites(mp) == Prod(LatShape(mp))

Nonzero(mp, k) == Get(mp, k, 0) # 0

\* lat.site(0).conserve: with conserve = "best" the strongest law the
\* couplings allow; None is written "None".
SiteConserve(mp) ==
    LET c == Get(mp, "conserve", "best") IN
    IF c # "best" THEN c
    ELSE IF ~(\/ Get(mp, "Jx", 0) # Get(mp, "Jy", 0)
              \/ Nonzero(mp, "hx") \/ Nonzero(mp, "hy") \/ Nonzero(mp, "E"))
         THEN "Sz"
    ELSE IF ~(Nonzero(mp, "hx") \/ Nonzero(mp, "hy"))
         THEN "parity"
    ELSE "None"

-----------------------------------------------------------------------------
(* Stage 1: spinhalf_lattice_config(lattice_type, Lx, Ly, bc_x, bc_y).     *)

\* The dimension chosen from the lattice type; 0 when the type is in
\* neither set.
LatticeDim(lattice_type) ==
    IF lattice_type \in _ALLOWED_LATTICES_1D THEN 1
    ELSE IF lattice_type \in _ALLOWED_LATTICES_2D THEN 2
    ELSE 0

\* Mutant of LatticeCheck: the boundary condition is tested before the type.
LatticeCheck_BcFirst(lattice_type, bc_x, bc_y) ==
    LET d == LatticeDim(lattice_type) IN
    IF bc_x \notin _ALLOWED_BC THEN "InvalidBoundaryCondition"
    ELSE IF d = 0 THEN "InvalidLatticeType"
    ELSE IF d = 2 /\ bc_y \notin _ALLOWED_BC THEN "InvalidBoundaryCondition"
    ELSE "ok"

\* The validation before the file is touched: "ok" or the error raised.
LatticeCheck(lattice_type, bc_x, bc_y) ==
    LET d == LatticeDim(lattice_type) IN
    IF d = 0 THEN "InvalidLatticeType"
    ELSE IF bc_x \notin _ALLOWED_BC THEN "InvalidBoundaryCondition"
    ELSE IF d = 2 /\ bc_y \notin _ALLOWED_BC THEN "InvalidBoundaryCondition"
    ELSE "ok"

\* Mutant of LatticeCommon: the spin is written only when none is stored.
LatticeCommon_KeepSpin(mp, lattice_type) ==
    Put(Put(Put(mp, "lattice", lattice_type), "S", Get(mp, "S", SPIN_S)),
        "bc_MPS", BC_MPS)

\* The keys written for every lattice.
LatticeCommon(mp, lattice_type) ==
    Put(Put(Put(mp, "lattice", lattice_type), "S", SPIN_S), "bc_MPS", BC_MPS)

\* Mutant of LatticeKeys1D: the secondary boundary condition is left behind.
LatticeKeys1D_KeepBcY(mp, Lx, bc_x) ==
    Pop(Pop(Put(Put(mp, "L", Lx), "bc_x", bc_x), "Lx"), "Ly")

\* d == 1: write L and bc_x, drop the 2-D keys.
LatticeKeys1D(mp, Lx, bc_x) ==
    Pop(Pop(Pop(Put(Put(mp, "L", Lx), "bc_x", bc_x), "Lx"), "Ly"), "bc_y")

\* d == 2: write Lx, Ly, bc_x and bc_y, drop L.
LatticeKeys2D(mp, Lx, Ly, bc_x, bc_y) ==
    Pop(Put(Put(Put(Put(mp, "Lx", Lx), "Ly", Ly), "bc_x", bc_x), "bc_y", bc_y), "L")

\* Mutant of LatticeData: stage 1 starts the document anew.
LatticeData_Fresh(data, lattice_type, Lx, Ly, bc_x, bc_y) ==
    LET mp0 == LatticeCommon(EmptyDict, lattice_type)
        mp1 == IF LatticeDim(lattice_type) = 1
               THEN LatticeKeys1D(mp0, Lx, bc_x)
               ELSE LatticeKeys2D(mp0, Lx, Ly, bc_x, bc_y)
    IN  [model_class |-> MODEL_CLASS, model_params |-> mp1]

\* The document stage 1 writes from the loaded one.
LatticeData(data, lattice_type, Lx, Ly, bc_x, bc_y) ==
    LET d0 == Put(data, "model_class", MODEL_CLASS)
        mp0 == LatticeCommon(Get(d0, "model_params", EmptyDict), lattice_type)
        mp1 == IF LatticeDim(lattice_type) = 1
               THEN LatticeKeys1D(mp0, Lx, bc_x)
               ELSE LatticeKeys2D(mp0, Lx, Ly, bc_x, bc_y)
    IN  Put(d0, "model_params", mp1)

spinhalf_lattice_config(lattice_type, Lx, Ly, bc_x, bc_y) ==
    LET chk == LatticeCheck(lattice_type, bc_x, bc_y) IN
    /\ Called([stage |-> "lattice", lattice_type |-> lattice_type,
               Lx |-> Lx, Ly |-> Ly, bc_x |-> bc_x, bc_y |-> bc_y])
    /\ result' = chk
    /\ file' = IF chk = "ok"
               THEN dump_yaml(LatticeData(load_yaml_data(file), lattice_type,
                                          Lx, Ly, bc_x, bc_y))
               ELSE file

-----------------------------------------------------------------------------
(* Stage 2: spinhalf_model_config(params_dict).                            *)

\* Mutant of MergeParams: a conserve entry of the mapping is kept.
MergeParams_KeepConserve(mp, params_dict) ==
    IF Has(params_dict, "conserve")
    THEN Update(mp, params_dict)
    ELSE Put(Update(mp, params_dict), "conserve", "best")

\* model_params after the merge and the conserve request.
MergeParams(mp, params_dict) == Put(Update(mp, params_dict), "conserve", "best")

\* The document stage 2 writes from the loaded one.
ModelData(data, params_dict) ==
    Put(data, "model_params",
        MergeParams(Get(data, "model_params", EmptyDict), params_dict))

\* What happens after the document is written: the model is built from
\* data["model_class"] and the merged parameters.
ModelResult(data) ==
    IF ~Has(data, "model_class") THEN "KeyError"
    ELSE IF ~ModelBuilds(data["model_params"]) THEN "ModelConstructionError"
    ELSE "ok"

spinhalf_model_config(params_dict) ==
    LET data == ModelData(load_yaml_data(file), params_dict) IN
    /\ Called([stage |-> "model", params_dict |-> params_dict])
    /\ file' = dump_yaml(data)
    /\ result' = ModelResult(data)

-----------------------------------------------------------------------------
(* Stage 3: spinhalf_initial_state(tot_charge).  tot_charge is <<>> for    *)
(* None and <<q>> for the charge q, in tenths.                             *)

\* int(x) of a value in tenths: truncation toward zero.
IntTrunc(x) == IF x >= 0 THEN (x \div 10) * 10 ELSE -(((-x) \div 10) * 10)

\* math.isclose(a, b) with its default relative tolerance 1e-9: on values
\* in tenths far below 1e8 the two are close exactly when they are equal.
IsClose(a, b) == a = b

\* Mutant of IsHalfInteger: both sides of the comparison are truncated.
IsHalfInteger_BothTruncated(q) == IsClose(IntTrunc(2 * q), IntTrunc(2 * q))

\* The test of line 174: 2 * tot_charge is close to its integer part.
IsHalfInteger(q) == IsClose(2 * q, IntTrunc(2 * q))

\* n_up before int(), in tenths: tot_charge + n_sites / 2.
UpTenths(q, n_sites) == q + 5 * n_sites

\* Mutant of DnTenths: the sign of the charge is lost.
DnTenths_SignLost(q, n_sites) == q + 5 * n_sites

\* n_dn before int(), in tenths: -tot_charge + n_sites / 2.
DnTenths(q, n_sites) == -q + 5 * n_sites

\* The test of line 197.
CountsIntegral(q, n_sites) ==
    /\ IsClose(UpTenths(q, n_sites), IntTrunc(UpTenths(q, n_sites)))
    /\ IsClose(DnTenths(q, n_sites), IntTrunc(DnTenths(q, n_sites)))

\* int(x) as an integer, for x in tenths.
PyInt(x) == IntTrunc(x) \div 10

\* Mutant of Counts: n_up is drawn from 0 up to and including n_sites.
Counts_Inclusive(tot_charge, n_sites) ==
    IF tot_charge = <<>>
    THEN {<<n_up, n_sites - n_up>> : n_up \in 0 .. n_sites}
    ELSE {<<PyInt(UpTenths(tot_charge[1], n_sites)),
            PyInt(DnTenths(tot_charge[1], n_sites))>>}

\* Mutant of Counts: the charge is ignored and n_up is always drawn.
Counts_IgnoreCharge(tot_charge, n_sites) ==
    {<<n_up, n_sites - n_up>> : n_up \in 0 .. (n_sites - 1)}

\* The pairs <<n_up, n_dn>> stage 3 can compute: any n_up below n_sites
\* when no charge is given, else the one the charge fixes.
Counts(tot_charge, n_sites) ==
    IF tot_charge = <<>>
    THEN {<<n_up, n_sites - n_up>> : n_up \in 0 .. (n_sites - 1)}
    ELSE {<<PyInt(UpTenths(tot_charge[1], n_sites)),
            PyInt(DnTenths(tot_charge[1], n_sites))>>}

\* len(["up"] * n_up + ["down"] * n_dn): a negative count repeats nothing.
InitLen(n_up, n_dn) ==
    (IF n_up > 0 THEN n_up ELSE 0) + (IF n_dn > 0 THEN n_dn ELSE 0)

NumUp(init) == Cardinality({i \in DOMAIN init : init[i] = "up"})
NumDown(init) == Cardinality({i \in DOMAIN init : init[i] = "down"})

\* Every order np.random.shuffle can leave the labels in.
Shuffles(n_up, n_dn) ==
    {init \in [1 .. InitLen(n_up, n_dn) -> {"up", "down"}] :
        NumUp(init) = (IF n_up > 0 THEN n_up ELSE 0)}

\* init.reshape(shape) needs as many elements as the shape holds.
ReshapeFits(n_up, n_dn, shape) == InitLen(n_up, n_dn) = Prod(shape)

\* init.reshape(shape).tolist(): the nested list, held as its shape and its
\* elements in row-major order.
Reshape(init, shape) == [shape |-> shape, flat |-> init]

\* The document stage 3 writes from the loaded one.
InitialStateData(data, product_state) ==
    Put(data, "initial_state_params",
        Put(Put(Get(data, "initial_state_params", EmptyDict), "method", METHOD),
            "product_state", product_state))

\* Mutant of InitialStateCheck: parity counts as a supported law.
InitialStateCheck_ParityAllowed(data, tot_charge) ==
    LET mp == Get(data, "model_params", EmptyDict) IN
    IF ~Has(data, "model_class") THEN "KeyError"
    ELSE IF ~ModelBuilds(mp) THEN "ModelConstructionError"
    ELSE IF SiteConserve(mp) \notin {"Sz", "None", "parity"}
         THEN "UnsupportedConservationLaw"
    ELSE IF tot_charge # <<>> /\ ~CountsIntegral(tot_charge[1], N_sites(mp))
         THEN "InconsistentCharge"
    ELSE "ok"

\* Mutant of InitialStateCheck: a document without model_class is taken to
\* name the default model class.
InitialStateCheck_DefaultClass(data, tot_charge) ==
    LET mp == Get(data, "model_params", EmptyDict) IN
    IF ~ModelBuilds(mp) THEN "ModelConstructionError"
    ELSE IF SiteConserve(mp) \notin {"Sz", "None"} THEN "UnsupportedConservationLaw"
    ELSE IF tot_charge # <<>> /\ ~CountsIntegral(tot_charge[1], N_sites(mp))
         THEN "InconsistentCharge"
    ELSE "ok"

\* The checks between the load and the shuffle: "ok" or the error raised.
InitialStateCheck(data, tot_charge) ==
    LET mp == Get(data, "model_params", EmptyDict) IN
    IF ~Has(data, "model_class") THEN "KeyError"
    ELSE IF ~ModelBuilds(mp) THEN "ModelConstructionError"
    ELSE IF SiteConserve(mp) \notin {"Sz", "None"} THEN "UnsupportedConservationLaw"
    ELSE IF tot_charge # <<>> /\ ~CountsIntegral(tot_charge[1], N_sites(mp))
         THEN "InconsistentCharge"
    ELSE "ok"

spinhalf_initial_state(tot_charge) ==
    /\ Called([stage |-> "initial_state", tot_charge |-> tot_charge])
    /\ IF tot_charge # <<>> /\ ~IsHalfInteger(tot_charge[1])
       THEN result' = "InvalidCharge" /\ file' = file
       ELSE LET data == load_yaml_data(file)
                mp == Get(data, "model_params", EmptyDict)
                chk == InitialStateCheck(data, tot_charge)
            IN  IF chk # "ok"
                THEN result' = chk /\ file' = load_yaml_file(file)
                ELSE \E c \in Counts(tot_charge, N_sites(mp)) :
                        IF ~ReshapeFits(c[1], c[2], LatShape(mp))
                        THEN result' = "ReshapeError" /\ file' = load_yaml_file(file)
                        ELSE \E init \in Shuffles(c[1], c[2]) :
                                /\ result' = "ok"
                                /\ file' = dump_yaml(InitialStateData(data,
                                               Reshape(init, LatShape(mp))))

-----------------------------------------------------------------------------
(* Stage 4: dmrg_and_measu_config(chi_max, max_sweeps).                    *)

CONNECT_MEASUREMENTS ==
    << <<"tenpy.simulations.measurement", "m_onsite_expectation_value",
         [opname |-> "Sz"]>>,
       <<"psi_method", "wrap correlation_function",
         [results_key |-> "<Sz_i Sz_j>", ops1 |-> "Sz", ops2 |-> "Sz"]>>,
       <<"psi_method", "wrap correlation_function",
         [results_key |-> "<Sp_i Sm_j>", ops1 |-> "Sp", ops2 |-> "Sm"]>> >>

AlgorithmParams(chi_max, max_sweeps) ==
    [algorithm |-> "TwoSiteDMRGEngine",
     max_sweeps |-> max_sweeps,
     mixer |-> FALSE,
     trunc_params |-> [chi_max |-> chi_max, svd_min |-> "1e-8"]]

OutputFilenameParams == [prefix |-> "result", suffix |-> ".h5"]

\* Mutant of DmrgData: algorithm_params is merged into the section the
\* document holds, and written only when there is none.
DmrgData_KeepSection(data, chi_max, max_sweeps) ==
    LET d1 == Put(data, "simulation_class", "GroundStateSearch")
        d2 == Put(d1, "algorithm_params",
                  Get(data, "algorithm_params", AlgorithmParams(chi_max, max_sweeps)))
        d3 == Put(d2, "measure_initial", FALSE)
        d4 == Put(d3, "connect_measurements", CONNECT_MEASUREMENTS)
    IN  Put(d4, "output_filename_params", OutputFilenameParams)

\* Mutant of DmrgData: the sections are written to a new document.
DmrgData_Fresh(data, chi_max, max_sweeps) ==
    [simulation_class |-> "GroundStateSearch",
     algorithm_params |-> AlgorithmParams(chi_max, max_sweeps),
     measure_initial |-> FALSE,
     connect_measurements |-> CONNECT_MEASUREMENTS,
     output_filename_params |-> OutputFilenameParams]

\* The document stage 4 writes from the loaded one.
DmrgData(data, chi_max, max_sweeps) ==
    LET d1 == Put(data, "simulation_class", "GroundStateSearch")
        d2 == Put(d1, "algorithm_params", AlgorithmParams(chi_max, max_sweeps))
        d3 == Put(d2, "measure_initial", FALSE)
        d4 == Put(d3, "connect_measurements", CONNECT_MEASUREMENTS)
    IN  Put(d4, "output_filename_params", OutputFilenameParams)

dmrg_and_measu_config(chi_max, max_sweeps) ==
    /\ Called([stage |-> "dmrg_config", chi_max |-> chi_max,
               max_sweeps |-> max_sweeps])
    /\ result' = "ok"
    /\ file' = dump_yaml(DmrgData(load_yaml_data(file), chi_max, max_sweeps))

-----------------------------------------------------------------------------
(* Stage 5: dmrg_run().  The file is read, never written; the simulation   *)
(* is the external solver tenpy.run_simulation.                            *)

\* How tenpy.run_simulation(**simulation_params) can end: it cannot run
\* without a model class and parameters the model factory builds; a run it
\* starts completes or raises.
SimulationOutcomes(simulation_params) ==
    IF /\ Has(simulation_params, "model_class")
       /\ ModelBuilds(Get(simulation_params, "model_params", EmptyDict))
    THEN {"ok", "SimulationError"}
    ELSE {"SimulationError"}

\* prefix + suffix of output_filename_params.
result_path(simulation_params) ==
    simulation_params["output_filename_params"]["prefix"]
        \o simulation_params["output_filename_params"]["suffix"]

\* Mutant of log_path: the log is named after the result file.
log_path_AfterResult(simulation_params) ==
    result_path(simulation_params) \o ".log"

\* prefix + ".log".
log_path(simulation_params) ==
    simulation_params["output_filename_params"]["prefix"] \o ".log"

dmrg_run ==
    /\ file' = file
    /\ IF ~file.exists
       THEN /\ CalledReporting([stage |-> "run"], <<>>)
            /\ result' = "FileNotFoundError"
       ELSE \E outcome \in SimulationOutcomes(file.data) :
               IF outcome # "ok"
               THEN /\ CalledReporting([stage |-> "run"], <<>>)
                    /\ result' = outcome
               ELSE IF ~Has(file.data, "output_filename_params")
               THEN /\ CalledReporting([stage |-> "run"], <<>>)
                    /\ result' = "KeyError"
               ELSE /\ CalledReporting([stage |-> "run"],
                                       <<result_path(file.data), log_path(file.data)>>)
                    /\ result' = "ok"

-----------------------------------------------------------------------------
(* The calls a caller makes.                                               *)

Extents == 1 .. MaxL

\* The site count a stage 1 call asks for.
AskedSites(lattice_type, Lx, Ly) ==
    IF lattice_type \in _ALLOWED_LATTICES_1D THEN Lx
    ELSE Lx * Ly * UnitCell(lattice_type)

\* Stage 1 calls over the given lattice types and boundary conditions.
LatticeCallsOver(types, bcs_x, bcs_y) ==
    {c \in [lattice_type : types, Lx : Extents, Ly : Extents,
            bc_x : bcs_x, bc_y : bcs_y] :
        AskedSites(c.lattice_type, c.Lx, c.Ly) <= MaxSites}

\* Calls that put validation to the test, on the smallest lattice: a type
\* that is not supported and a boundary condition that is not allowed, for
\* either axis.
ProbeCalls(types, bcs_x, bcs_y) ==
    {c \in LatticeCallsOver(types, bcs_x, bcs_y) : c.Lx = 1 /\ c.Ly = 1}

\* The calls of the pipeline specification: three lattices with the default
\* boundary conditions, and probes.
LatticeCalls ==
    LatticeCallsOver({"Chain", "Square", "Kagome"}, {"open"}, {"periodic"})
    \cup ProbeCalls({"Chain", "Ladder"}, {"open", "twisted"}, {"periodic"})

\* Couplings that keep Sz, couplings that break every conservation law
\* (passed with a conserve entry), and a spin the model constructor rejects
\* (S = 0.3).
ParamDicts == { [hx |-> 0], [hx |-> 1, conserve |-> "Sz"], [hx |-> 0, S |-> 3] }

\* None, 0, 0.3, 0.5, 1.0, -1.0, 2.5 and 3.0.
Charges == { <<>>, <<0>>, <<3>>, <<5>>, <<10>>, <<-10>>, <<25>>, <<30>> }

DmrgCalls == { [chi_max |-> 1, max_sweeps |-> 1] }

\* The calls of the lattice specification: every supported lattice type
\* with every allowed boundary condition, and probes.
GeomLatticeCalls ==
    LatticeCallsOver(KnownLattices, _ALLOWED_BC, _ALLOWED_BC)
    \cup ProbeCalls({"Chain", "Square", "Ladder"},
                    {"open", "twisted"}, {"periodic", "twisted"})

\* A parameter mapping whose names are stage 1's keys: an extent and the
\* spin (S = 1.0).
GeomParamDicts == { [L |-> 1, S |-> 10] }

\* The charge 2.0, which a four-site lattice takes as all "up".
GeomCharges == { <<20>> }

-----------------------------------------------------------------------------
(* The specifications.                                                     *)

\* No concurrent caller is at work and the YAML text is not looked at.
OthersAtRest ==
    /\ calls = <<>>
    /\ overlapped = FALSE
    /\ yamlFile = <<>>
    /\ loaded = <<>>
    /\ SshAtRest

Init ==
    /\ file \in {NoFile, [exists |-> TRUE, data |-> EmptyDict]}
    /\ lastCall = [stage |-> "none"]
    /\ repeated = FALSE
    /\ result = "none"
    /\ reported = <<>>
    /\ OthersAtRest

NextOver(latticeCalls, paramDicts, charges, dmrgCalls) ==
    \/ \E c \in latticeCalls :
            spinhalf_lattice_config(c.lattice_type, c.Lx, c.Ly, c.bc_x, c.bc_y)
    \/ \E params_dict \in paramDicts : spinhalf_model_config(params_dict)
    \/ \E tot_charge \in charges : spinhalf_initial_state(tot_charge)
    \/ \E c \in dmrgCalls : dmrg_and_measu_config(c.chi_max, c.max_sweeps)
    \/ dmrg_run

Next == NextOver(LatticeCalls, ParamDicts, Charges, DmrgCalls)

Spec == Init /\ [][Next]_vars

NextLattice == NextOver(GeomLatticeCalls, GeomParamDicts, GeomCharges, DmrgCalls)

SpecLattice == Init /\ [][NextLattice]_vars

\* The calls of the solver specification: chains, and a lattice type that
\* is not supported.
SolverLatticeCalls ==
    LatticeCallsOver({"Chain"}, {"open"}, {"periodic"})
    \cup ProbeCalls({"Ladder"}, {"open"}, {"periodic"})

\* Couplings under which the model conserves parity only (Jx = 1), nothing
\* (hx = 1), and Sz again (both back to 0).
SolverParamDicts == { [Jx |-> 1], [hx |-> 1], [Jx |-> 0, hx |-> 0] }

\* None, 0 and 0.3.
SolverCharges == { <<>>, <<0>>, <<3>> }

\* Solver knobs as a caller may pass them: positive, zero and negative.
SolverDmrgCalls ==
    { [chi_max |-> 1, max_sweeps |-> 2],
      [chi_max |-> 2, max_sweeps |-> 1],
      [chi_max |-> 0, max_sweeps |-> -1] }

NextSolver ==
    NextOver(SolverLatticeCalls, SolverParamDicts, SolverCharges, SolverDmrgCalls)

SpecSolver == Init /\ [][NextSolver]_vars

-----------------------------------------------------------------------------
(* The document store on YAML text: load_yaml and dump_yaml with the       *)
(* conversions of yaml.safe_dump and yaml.safe_load.  The stages above     *)
(* hold the file as the mapping its text denotes; here the file holds the  *)
(* text, as the tree of nodes the emitter writes and the parser reads.     *)
(*                                                                         *)
(* A Python value is <<type, v>>: v is its repr for a scalar, the tuple of  *)
(* its items for a list, the key-to-value function for a dict.             *)

StrVal(s) == <<"str", s>>
IntVal(r) == <<"int", r>>
FloatVal(r) == <<"float", r>>
BoolVal(r) == <<"bool", r>>
NoneVal == <<"NoneType", "None">>
ListVal(items) == <<"list", items>>
DictVal(items) == <<"dict", items>>

TypeOf(x) == x[1]
ValueOf(x) == x[2]

\* {}
EmptyDoc == DictVal(EmptyDict)

\* The plain scalars the resolver of YAML 1.1 reads as null, as a boolean,
\* as an integer and as a float; any other text is a string.
NullTexts == {"", "~", "null", "Null", "NULL"}
TrueTexts == {"true", "True", "TRUE", "yes", "Yes", "YES", "on", "On", "ON"}
FalseTexts == {"false", "False", "FALSE", "no", "No", "NO", "off", "Off", "OFF"}
IntTexts == {ToString(n) : n \in -9 .. 99}
FloatTexts == {"0.5", "1.0", "1.5", "1.0e-08", ".inf", "-1.0"}

ImplicitTag(text) ==
    CASE text \in NullTexts                 -> "null"
      [] text \in TrueTexts \cup FalseTexts -> "bool"
      [] text \in IntTexts                  -> "int"
      [] text \in FloatTexts                -> "float"
      [] OTHER                              -> "str"

\* A float's text: its repr, with ".0" put before the exponent when the
\* repr has no point.
FloatText(r) == IF r = "1e-08" THEN "1.0e-08" ELSE r

\* float(text) as a repr.
FloatRepr(text) == IF text = "1.0e-08" THEN "1e-08" ELSE text

Plain(text) == [kind |-> "scalar", style |-> "plain", text |-> text]
Quoted(text) == [kind |-> "scalar", style |-> "single", text |-> text]

\* The node the safe representer writes for a scalar: a string that a plain
\* scalar would not read back as a string is quoted.
RepresentScalar(x) ==
    CASE TypeOf(x) = "str"      -> IF ImplicitTag(ValueOf(x)) = "str" THEN Plain(ValueOf(x))
                             ELSE Quoted(ValueOf(x))
      [] TypeOf(x) = "int"      -> Plain(ValueOf(x))
      [] TypeOf(x) = "float"    -> Plain(FloatText(ValueOf(x)))
      [] TypeOf(x) = "bool"     -> Plain(IF ValueOf(x) = "True" THEN "true" ELSE "false")
      [] TypeOf(x) = "NoneType" -> Plain("null")

\* The value the safe constructor builds from a scalar node.
ConstructScalar(n) ==
    IF n.style = "single" THEN StrVal(n.text)
    ELSE CASE ImplicitTag(n.text) = "null"  -> NoneVal
           [] ImplicitTag(n.text) = "bool"  ->
                  BoolVal(IF n.text \in TrueTexts THEN "True" ELSE "False")
           [] ImplicitTag(n.text) = "int"   -> IntVal(n.text)
           [] ImplicitTag(n.text) = "float" -> FloatVal(FloatRepr(n.text))
           [] OTHER                         -> StrVal(n.text)

RECURSIVE Represent(_)
Represent(x) ==
    CASE TypeOf(x) = "list" ->
            [kind |-> "seq", items |-> [i \in DOMAIN ValueOf(x) |-> Represent(ValueOf(x)[i])]]
      [] TypeOf(x) = "dict" ->
            [kind |-> "map",
             items |-> {<<RepresentScalar(k), Represent(ValueOf(x)[k])>> : k \in DOMAIN ValueOf(x)}]
      [] OTHER -> RepresentScalar(x)

RECURSIVE Construct(_)
Construct(n) ==
    CASE n.kind = "seq" ->
            ListVal([i \in DOMAIN n.items |-> Construct(n.items[i])])
      [] n.kind = "map" ->
            DictVal([k \in {ConstructScalar(p[1]) : p \in n.items} |->
                        Construct((CHOOSE p \in n.items : ConstructScalar(p[1]) = k)[2])])
      [] OTHER -> ConstructScalar(n)

\* yaml.safe_dump(data, f): the text written.
safe_dump(data) == Represent(data)

\* yaml.safe_load(f): the value read.
safe_load(text) == Construct(text)

\* bool(x) is False.
Falsy(x) ==
    \/ TypeOf(x) = "NoneType"
    \/ TypeOf(x) = "bool" /\ ValueOf(x) = "False"
    \/ TypeOf(x) = "int" /\ ValueOf(x) = "0"
    \/ TypeOf(x) = "str" /\ ValueOf(x) = ""
    \/ TypeOf(x) = "list" /\ ValueOf(x) = <<>>
    \/ TypeOf(x) = "dict" /\ DOMAIN ValueOf(x) = {}

NoYamlFile == [exists |-> FALSE, text |-> Plain("")]

\* dump_yaml(data, path): the file after the call.
dump_yaml_text(data) == [exists |-> TRUE, text |-> safe_dump(data)]

\* load_yaml(path): the value returned.
load_yaml_value(f) ==
    IF f.exists
    THEN LET data == safe_load(f.text) IN IF Falsy(data) THEN EmptyDoc ELSE data
    ELSE EmptyDoc

\* Mutant of load_yaml_created: an absent file is left absent.
load_yaml_created_NotWritten(f) == f

\* load_yaml(path): the file after the call; an absent file is written
\* with the dump of {}.
load_yaml_created(f) == IF f.exists THEN f ELSE dump_yaml_text(EmptyDoc)

\* Scalars a document can hold: strings, among them ones that read as
\* another type when left plain, integers, floats, booleans and None.
StoreScalars ==
    {StrVal(s) : s \in {"SpinModel", "best", "up", "true", "no", "null", "",
                        "~", "1", "0.5", "1e-8", "1.0e-08", "None"}}
    \cup {IntVal(r) : r \in {"0", "1", "4", "-1"}}
    \cup {FloatVal(r) : r \in {"0.5", "1.0", "1e-08"}}
    \cup {BoolVal(r) : r \in {"True", "False"}}
    \cup {NoneVal}

\* The empty list, a 1-D and a 2-D product_state, and a measurement entry.
StoreLists ==
    { ListVal(<<>>),
      ListVal(<<StrVal("up"), StrVal("down")>>),
      ListVal(<< ListVal(<<ListVal(<<StrVal("up")>>)>>),
                 ListVal(<<ListVal(<<StrVal("down")>>)>>) >>),
      ListVal(<<StrVal("psi_method"),
                DictVal(StrVal("ops1") :> StrVal("Sz"))>>) }

\* A document as the stages leave it, with a parameter named like a number.
StagedDoc ==
    DictVal(
        (StrVal("model_class") :> StrVal("SpinModel"))
     @@ (StrVal("model_params") :>
            DictVal( (StrVal("lattice") :> StrVal("Chain"))
                  @@ (StrVal("S") :> FloatVal("0.5"))
                  @@ (StrVal("L") :> IntVal("4"))
                  @@ (StrVal("1") :> FloatVal("1.0"))
                  @@ (StrVal("conserve") :> StrVal("best")) ))
     @@ (StrVal("initial_state_params") :>
            DictVal( (StrVal("method") :> StrVal("lat_product_state"))
                  @@ (StrVal("product_state") :>
                         ListVal(<<StrVal("up"), StrVal("down"),
                                   StrVal("up"), StrVal("up")>>)) ))
     @@ (StrVal("algorithm_params") :>
            DictVal( (StrVal("mixer") :> BoolVal("False"))
                  @@ (StrVal("trunc_params") :>
                         DictVal( (StrVal("chi_max") :> IntVal("1"))
                               @@ (StrVal("svd_min") :> FloatVal("1e-08")) )) )) )

\* The documents a caller persists.
Documents ==
    {EmptyDoc, StagedDoc}
    \cup {DictVal(StrVal("x") :> val) : val \in StoreScalars \cup StoreLists}
    \cup {DictVal(StrVal("x") :> DictVal(StrVal("on") :> val)) :
            val \in {StrVal("off"), BoolVal("False"), EmptyDoc}}

\* No document has been loaded yet.
NotLoaded == <<"unset", "">>

\* dump_yaml(data, path) on the YAML text.
dump_yaml_call(data) ==
    /\ yamlFile' = dump_yaml_text(data)
    /\ lastCall' = [stage |-> "persist", data |-> data]
    /\ UNCHANGED <<file, repeated, result, reported, calls, overlapped, loaded,
                   sshVars>>

\* load_yaml(path) on the YAML text.
load_yaml_call ==
    /\ loaded' = load_yaml_value(yamlFile)
    /\ yamlFile' = load_yaml_created(yamlFile)
    /\ lastCall' = [stage |-> "load", data |-> NotLoaded]
    /\ UNCHANGED <<file, repeated, result, reported, calls, overlapped, sshVars>>

InitStore ==
    /\ file = NoFile
    /\ lastCall = [stage |-> "none", data |-> NotLoaded]
    /\ repeated = FALSE
    /\ result = "none"
    /\ reported = <<>>
    /\ calls = <<>>
    /\ overlapped = FALSE
    /\ yamlFile = NoYamlFile
    /\ loaded = NotLoaded
    /\ SshAtRest

NextStore ==
    \/ \E data \in Documents : dump_yaml_call(data)
    \/ load_yaml_call

SpecStore == InitStore /\ [][NextStore]_vars

-----------------------------------------------------------------------------
(* Independent callers on one path.  Nothing locks the file: a call of     *)
(* stage 1, 2 or 4 is a load_yaml, changes to the loaded data, and a       *)
(* dump_yaml, and another caller's load or dump can fall in between.       *)

Callers == {"a", "b"}

\* A caller that has made no call.
IdleCall == [pc |-> "idle", call |-> [stage |-> "none"], data |-> EmptyDict,
             result |-> "none"]

\* What a call raises before it loads the file: stage 1 validates first.
CheckBeforeLoad(call) ==
    IF call.stage = "lattice"
    THEN LatticeCheck(call.lattice_type, call.bc_x, call.bc_y)
    ELSE "ok"

\* The data a call dumps, from the data it loaded.
DataToDump(call, data) ==
    CASE call.stage = "lattice" ->
            LatticeData(data, call.lattice_type, call.Lx, call.Ly,
                        call.bc_x, call.bc_y)
      [] call.stage = "model" -> ModelData(data, call.params_dict)
      [] call.stage = "dmrg_config" ->
            DmrgData(data, call.chi_max, call.max_sweeps)

\* How a call ends after its dump: stage 2 then builds the model.
ResultAfterDump(call, data) ==
    IF call.stage = "model" THEN ModelResult(data) ELSE "ok"

\* Caller c starts a call: validation, then load_yaml.
CallerLoads(c, call) ==
    /\ calls[c].pc = "idle"
    /\ IF CheckBeforeLoad(call) # "ok"
       THEN /\ calls' = [calls EXCEPT ![c] =
                            [pc |-> "returned", call |-> call, data |-> EmptyDict,
                             result |-> CheckBeforeLoad(call)]]
            /\ UNCHANGED <<file, overlapped>>
       ELSE /\ calls' = [calls EXCEPT ![c] =
                            [pc |-> "loaded", call |-> call,
                             data |-> load_yaml_data(file), result |-> "none"]]
            /\ file' = load_yaml_file(file)
            /\ overlapped' = (overlapped
                                \/ \E d \in Callers \ {c} : calls[d].pc = "loaded")
    /\ UNCHANGED <<lastCall, repeated, result, reported, yamlFile, loaded, sshVars>>

\* Caller c's call goes on: dump_yaml of the changed data, and the return.
CallerDumps(c) ==
    /\ calls[c].pc = "loaded"
    /\ LET data == DataToDump(calls[c].call, calls[c].data) IN
        /\ file' = dump_yaml(data)
        /\ calls' = [calls EXCEPT ![c].pc = "returned",
                                  ![c].data = data,
                                  ![c].result = ResultAfterDump(calls[c].call, data)]
    /\ UNCHANGED <<lastCall, repeated, result, reported, overlapped, yamlFile, loaded,
                   sshVars>>

\* The calls the two callers choose from: a chain, a square and a lattice
\* type that is not supported; two couplings; two bond dimensions.
RaceLatticeCalls ==
    {[stage |-> "lattice", lattice_type |-> t, Lx |-> 1, Ly |-> 1,
      bc_x |-> "open", bc_y |-> "periodic"] : t \in {"Chain", "Square", "Ladder"}}

RaceModelCalls ==
    {[stage |-> "model", params_dict |-> P] : P \in {[hx |-> 1], [Jz |-> 1]}}

RaceDmrgCalls ==
    {[stage |-> "dmrg_config", chi_max |-> chi, max_sweeps |-> 1] : chi \in {1, 2}}

\* The path is fresh, or stage 1 has configured a chain on it.
InitRace ==
    /\ file \in {NoFile,
                 dump_yaml(LatticeData(EmptyDict, "Chain", 1, 1, "open", "periodic"))}
    /\ calls = [c \in Callers |-> IdleCall]
    /\ overlapped = FALSE
    /\ lastCall = [stage |-> "none"]
    /\ repeated = FALSE
    /\ result = "none"
    /\ reported = <<>>
    /\ yamlFile = <<>>
    /\ loaded = <<>>
    /\ SshAtRest

NextRace ==
    \/ \E c \in Callers : \E call \in RaceLatticeCalls : CallerLoads(c, call)
    \/ \E c \in Callers : \E call \in RaceModelCalls : CallerLoads(c, call)
    \/ \E c \in Callers : \E call \in RaceDmrgCalls : CallerLoads(c, call)
    \/ \E c \in Callers : CallerDumps(c)

SpecRace == InitRace /\ [][NextRace]_vars

-----------------------------------------------------------------------------
(* The SSH connection manager of src/src/main_ssh.py: a mapping from       *)
(* session ids to SSH clients.  Its methods hold no await, so each call    *)
(* runs to its return without another call in between.  The SSH client     *)
(* (paramiko) and uuid4 are external: a connect and a remote command       *)
(* succeed or raise, and uuid4 never gives an id it gave before.           *)

\* The number of session ids uuid4 hands out.
MaxSessions == 3

SessionIds == 1 .. MaxSessions

\* Commands a caller sends.
Commands == {"ls", "pwd"}

\* Key paths a caller passes: none, or a private key file.
KeyPaths == {"", "id_rsa"}

\* str(uuid.uuid4()): an id that was not returned before.
FreshIds == SessionIds \ sshHistory.returned

\* What an SSH manager call returns, for the messages of the source:
\*   "connected"        "SSH连接成功: ..." with the session id
\*   "connect_failed"   "连接失败: ..."
\*   "no_active"        "无活动SSH连接，请先建立连接"
\*   "executed"         "$ command ..." or "命令已执行"
\*   "exec_failed"      "执行失败: ..."
\*   "closed"           "SSH连接已关闭"
\*   "nothing_to_close" "无活动连接可关闭"
SshReturned(op, session_id, command, ret) ==
    sshCall' = [op |-> op, session_id |-> session_id, command |-> command,
                ret |-> ret]

\* A new client, connected.
NewClient == [open |-> TRUE, executed |-> {}]

\* Mutant of StoredAfterConnect: the store holds the new session only.
StoredAfterConnect_Single(conns, session_id) ==
    Put(EmptyDict, session_id, session_id)

\* self.connections[session_id] = ssh; the client is named by its session.
StoredAfterConnect(conns, session_id) == Put(conns, session_id, session_id)

\* Mutant of StoredAfterClose: the session stays in the store.
StoredAfterClose_Kept(conns, session_id) == conns

\* self.connections.pop(session_id)
StoredAfterClose(conns, session_id) == Pop(conns, session_id)

create_connection(key_path) ==
    /\ UNCHANGED <<file, lastCall, repeated, result, reported, calls, overlapped,
                   yamlFile, loaded>>
    /\ \/ \* reading the key or ssh.connect raises
          /\ SshReturned("create", 0, key_path, "connect_failed")
          /\ UNCHANGED <<connections, clients, sshHistory>>
       \/ \E session_id \in FreshIds :
            /\ connections' = StoredAfterConnect(connections, session_id)
            /\ clients' = Put(clients, session_id, NewClient)
            /\ sshHistory' = [sshHistory EXCEPT !.returned = @ \cup {session_id}]
            /\ SshReturned("create", session_id, key_path, "connected")

exec_command(command, session_id) ==
    /\ UNCHANGED <<file, lastCall, repeated, result, reported, calls, overlapped,
                   yamlFile, loaded>>
    /\ UNCHANGED <<connections, sshHistory>>
    /\ IF ~Has(connections, session_id)
       THEN /\ SshReturned("exec", session_id, command, "no_active")
            /\ UNCHANGED clients
       ELSE LET ssh == connections[session_id] IN
            \/ /\ clients' = [clients EXCEPT ![ssh].executed = @ \cup {command}]
               /\ SshReturned("exec", session_id, command, "executed")
            \/ \* ssh.exec_command raises
               /\ SshReturned("exec", session_id, command, "exec_failed")
               /\ UNCHANGED clients

close_connection(session_id) ==
    /\ UNCHANGED <<file, lastCall, repeated, result, reported, calls, overlapped,
                   yamlFile, loaded>>
    /\ IF Has(connections, session_id)
       THEN LET ssh == connections[session_id] IN
            /\ connections' = StoredAfterClose(connections, session_id)
            /\ clients' = [clients EXCEPT ![ssh].open = FALSE]
            /\ sshHistory' = [sshHistory EXCEPT !.closed = @ \cup {session_id}]
            /\ SshReturned("close", session_id, "", "closed")
       ELSE /\ SshReturned("close", session_id, "", "nothing_to_close")
            /\ UNCHANGED <<connections, clients, sshHistory>>

\* ssh_manager = SSHConnectionManager(): no connection.
InitSsh ==
    /\ connections = EmptyDict
    /\ clients = EmptyDict
    /\ sshHistory = [returned |-> {}, closed |-> {}]
    /\ sshCall = [op |-> "none", session_id |-> 0, command |-> "", ret |-> "none"]
    /\ file = NoFile
    /\ lastCall = [stage |-> "none"]
    /\ repeated = FALSE
    /\ result = "none"
    /\ reported = <<>>
    /\ calls = <<>>
    /\ overlapped = FALSE
    /\ yamlFile = <<>>
    /\ loaded = <<>>

NextSsh ==
    \/ \E key_path \in KeyPaths : create_connection(key_path)
    \/ \E command \in Commands : \E session_id \in SessionIds :
            exec_command(command, session_id)
    \/ \E session_id \in SessionIds : close_connection(session_id)

SpecSsh == InitSsh /\ [][NextSsh]_vars

-----------------------------------------------------------------------------
(* What the claims are stated over.                                        *)

Doc == load_yaml_data(file)
DocAfter == load_yaml_data(file')

\* A top-level section of a document: <<value>> when present, <<>> when not.
Section(data, k) == IF k \in DOMAIN data THEN <<data[k]>> ELSE <<>>

ModelParamsOf(data) == Get(data, "model_params", EmptyDict)

\* The keys that describe the lattice geometry.
GeometryKeys == {"L", "Lx", "Ly", "bc_x", "bc_y"}
Keys1D == {"L", "bc_x"}
Keys2D == {"Lx", "Ly", "bc_x", "bc_y"}

GeometryKeysOf(data) == DOMAIN ModelParamsOf(data) \cap GeometryKeys

HasProductState(data) ==
    /\ Has(data, "initial_state_params")
    /\ Has(data["initial_state_params"], "product_state")

ProductStateOf(data) == data["initial_state_params"]["product_state"]

Succeeded(stage) == lastCall.stage = stage /\ result = "ok"

-----------------------------------------------------------------------------
\* C1: after every successful stage 1 call model_params holds exactly the
\* geometry keys of the call's dimension: L and bc_x after a 1-D call,
\* Lx, Ly, bc_x and bc_y after a 2-D call, whatever earlier calls left.
C1_DimensionKeys ==
    Succeeded("lattice") =>
        GeometryKeysOf(Doc) =
            (IF lastCall.lattice_type = "Chain" THEN Keys1D ELSE Keys2D)

\* C1 witness: a 1-D stage 1 call has succeeded on a document that still
\* carries the product state of an earlier 2-D lattice and a stage 2 merge.
C1_Witness ==
    /\ Succeeded("lattice")
    /\ lastCall.lattice_type = "Chain"
    /\ HasProductState(Doc)
    /\ Len(ProductStateOf(Doc).shape) = 3
    /\ Has(ModelParamsOf(Doc), "conserve")

-----------------------------------------------------------------------------
\* The failures the error-handling section names.
NamedFailures ==
    {"InvalidLatticeType", "InvalidBoundaryCondition", "ModelConstructionError",
     "UnsupportedConservationLaw", "InvalidCharge", "InconsistentCharge"}

\* C2: whenever a stage call ends in one of the named failures, the
\* persisted document is what it was before the call.
C2_FailureLeavesDocument ==
    [][ (result' \in NamedFailures) => (DocAfter = Doc) ]_vars

-----------------------------------------------------------------------------
\* The document describes a lattice the model factory builds, with a
\* conservation law stage 3 supports.
StateReady(data) ==
    /\ Has(data, "model_class")
    /\ ModelBuilds(ModelParamsOf(data))
    /\ SiteConserve(ModelParamsOf(data)) \in {"Sz", "None"}

\* q (in tenths) is a multiple of 0.5, and q + n/2 and n/2 - q are
\* non-negative integers.
ChargeFits(q, n) ==
    /\ q % 5 = 0
    /\ (q + 5 * n) % 10 = 0
    /\ q + 5 * n >= 0
    /\ 5 * n - q >= 0

\* C3: stage 3 called with a charge q that fits the site count N of the
\* lattice succeeds and persists the method tag and a product_state in the
\* lattice's shape holding q + N/2 "up" and N/2 - q "down" labels, N in all.
C3_ChargeGivesCounts ==
    [][ ( /\ lastCall'.stage = "initial_state"
          /\ lastCall'.tot_charge # <<>>
          /\ StateReady(Doc)
          /\ ChargeFits(lastCall'.tot_charge[1], N_sites(ModelParamsOf(Doc))) )
        =>
        LET q == lastCall'.tot_charge[1]
            mp == ModelParamsOf(Doc)
        IN  /\ result' = "ok"
            /\ HasProductState(DocAfter)
            /\ DocAfter["initial_state_params"]["method"] = "lat_product_state"
            /\ ProductStateOf(DocAfter).shape = LatShape(mp)
            /\ Len(ProductStateOf(DocAfter).flat) = N_sites(mp)
            /\ 10 * NumUp(ProductStateOf(DocAfter).flat) = q + 5 * N_sites(mp)
            /\ 10 * NumDown(ProductStateOf(DocAfter).flat) = 5 * N_sites(mp) - q
      ]_vars

\* C3 witness: charge 1.0 on four sites has given three "up" and one "down".
C3_Witness ==
    /\ Succeeded("initial_state")
    /\ lastCall.tot_charge = <<10>>
    /\ N_sites(ModelParamsOf(Doc)) = 4
    /\ NumUp(ProductStateOf(Doc).flat) = 3
    /\ NumDown(ProductStateOf(Doc).flat) = 1

\* C4: stage 3 called with a charge that is a multiple of 0.5 but does not
\* fit the site count (q + N/2 or N/2 - q not a non-negative integer) fails
\* with InconsistentCharge and writes nothing.
C4_UnfitChargeIsInconsistent ==
    [][ ( /\ lastCall'.stage = "initial_state"
          /\ lastCall'.tot_charge # <<>>
          /\ lastCall'.tot_charge[1] % 5 = 0
          /\ StateReady(Doc)
          /\ ~ChargeFits(lastCall'.tot_charge[1], N_sites(ModelParamsOf(Doc))) )
        =>
        (result' = "InconsistentCharge" /\ file' = file)
      ]_vars

\* C5: stage 3 called with a charge that is not a multiple of 0.5 fails with
\* InvalidCharge and leaves the initial_state_params section as it was.
C5_InvalidChargeRejected ==
    [][ ( /\ lastCall'.stage = "initial_state"
          /\ lastCall'.tot_charge # <<>>
          /\ lastCall'.tot_charge[1] % 5 # 0 )
        =>
        ( /\ result' = "InvalidCharge"
          /\ Section(DocAfter, "initial_state_params")
               = Section(Doc, "initial_state_params") )
      ]_vars

\* C5 witness: charge 0.3 was rejected on a document holding an earlier
\* initial state.
C5_Witness ==
    /\ lastCall.stage = "initial_state"
    /\ lastCall.tot_charge = <<3>>
    /\ result = "InvalidCharge"
    /\ HasProductState(Doc)

-----------------------------------------------------------------------------
\* C6: once stage 1 has succeeded (model_class is set), model_params holds
\* the geometry keys of exactly one representation, 1-D or 2-D.
C6_OneRepresentation ==
    Has(Doc, "model_class") => GeometryKeysOf(Doc) \in {Keys1D, Keys2D}

\* C7: a persisted product_state has as many labels as the lattice that
\* model_params describes has sites, in that lattice's shape.
C7_ProductStateMatchesLattice ==
    HasProductState(Doc) =>
        /\ Len(ProductStateOf(Doc).flat) = N_sites(ModelParamsOf(Doc))
        /\ ProductStateOf(Doc).shape = LatShape(ModelParamsOf(Doc))

-----------------------------------------------------------------------------
\* A document without the arrangement stage 3 draws.
WithoutProductState(data) ==
    IF HasProductState(data)
    THEN Put(data, "initial_state_params",
             Pop(data["initial_state_params"], "product_state"))
    ELSE data

\* C8 as claimed: a call that repeats the call before it, stage and
\* arguments, leaves the persisted document as the first call left it.
C8_EveryStageIdempotent ==
    [][ repeated' => (file' = file) ]_vars

\* C8 amended: a repeated call of stage 1, 2 or 4 leaves the document as
\* it was; a repeated call of stage 3 changes at most product_state, which
\* keeps its shape and, with a charge given, its number of "up" labels.
C8_IdempotentUpToShuffle ==
    [][ repeated' =>
        IF lastCall'.stage # "initial_state"
        THEN file' = file
        ELSE /\ file'.exists = file.exists
             /\ WithoutProductState(DocAfter) = WithoutProductState(Doc)
             /\ HasProductState(DocAfter) = HasProductState(Doc)
             /\ HasProductState(Doc) =>
                  /\ ProductStateOf(DocAfter).shape = ProductStateOf(Doc).shape
                  /\ (lastCall'.tot_charge # <<>> /\ result' = "ok") =>
                        NumUp(ProductStateOf(DocAfter).flat)
                          = NumUp(ProductStateOf(Doc).flat)
      ]_vars

\* C8 witness: stage 3 has been called twice in a row with charge 1.0 and
\* has succeeded.
C8_Witness ==
    /\ repeated
    /\ Succeeded("initial_state")
    /\ lastCall.tot_charge = <<10>>

-----------------------------------------------------------------------------
\* C9: a successful stage 2 call with mapping P leaves model_params equal to
\* the old model_params overridden by P, with conserve = "best" whatever P
\* and the old value say, and leaves every other section as it was.
C9_MergeThenBest ==
    [][ (lastCall'.stage = "model" /\ result' = "ok") =>
        LET P == lastCall'.params_dict
            old == ModelParamsOf(Doc)
            new == ModelParamsOf(DocAfter)
        IN  /\ DOMAIN new = DOMAIN old \cup DOMAIN P \cup {"conserve"}
            /\ \A k \in DOMAIN new :
                  new[k] = IF k = "conserve" THEN "best"
                           ELSE IF k \in DOMAIN P THEN P[k]
                           ELSE old[k]
            /\ DOMAIN DocAfter = DOMAIN Doc \cup {"model_params"}
            /\ \A k \in DOMAIN Doc \ {"model_params"} : DocAfter[k] = Doc[k]
      ]_vars

\* C9 witness: stage 2 has succeeded with a mapping that has its own
\* conserve entry, on a document that holds the later sections.
C9_Witness ==
    /\ Succeeded("model")
    /\ Has(lastCall.params_dict, "conserve")
    /\ ModelParamsOf(Doc)["conserve"] = "best"
    /\ HasProductState(Doc)
    /\ Has(Doc, "algorithm_params")

-----------------------------------------------------------------------------
\* C10: a successful stage 1 call always sets model_class, lattice, S and
\* bc_MPS; on a fresh path with a 1-D lattice, extent n and boundary
\* condition b it leaves model_params exactly
\* {lattice, S: 0.5, bc_MPS: "finite", L: n, bc_x: b}.
C10_FreshChainDocument ==
    [][ (lastCall'.stage = "lattice" /\ result' = "ok") =>
        LET c == lastCall'
            new == ModelParamsOf(DocAfter)
        IN  /\ Section(DocAfter, "model_class") = <<"SpinModel">>
            /\ Has(DocAfter, "model_params")
            /\ {"lattice", "S", "bc_MPS"} \subseteq DOMAIN new
            /\ new["lattice"] = c.lattice_type
            /\ new["S"] = 5
            /\ new["bc_MPS"] = "finite"
            /\ (Doc = EmptyDict /\ c.lattice_type = "Chain") =>
                  new = [lattice |-> "Chain", S |-> 5, bc_MPS |-> "finite",
                         L |-> c.Lx, bc_x |-> c.bc_x]
      ]_vars

\* C10 witness: stage 1 for a periodic chain of two sites has produced the
\* two-section document of a fresh path.
C10_Witness ==
    /\ Succeeded("lattice")
    /\ Doc = [model_class |-> "SpinModel",
              model_params |-> [lattice |-> "Chain", S |-> 5, bc_MPS |-> "finite",
                                L |-> 2, bc_x |-> "periodic"]]

-----------------------------------------------------------------------------
\* C11: stage 5 never changes the file; when it reports, the result path is
\* prefix + suffix and the log path prefix + ".log" of the document's
\* output_filename_params, which after a stage 4 call are "result.h5" and
\* "result.log" whatever the lattice, the couplings and the run were; a run
\* that fails reports no path.
C11_ReportedPaths ==
    [][ (lastCall'.stage = "run") =>
        /\ file' = file
        /\ (result' # "ok") => (reported' = <<>>)
        /\ (result' = "ok") =>
              /\ Has(Doc, "output_filename_params")
              /\ reported' =
                    << Doc["output_filename_params"]["prefix"]
                         \o Doc["output_filename_params"]["suffix"],
                       Doc["output_filename_params"]["prefix"] \o ".log" >>
              /\ reported' = <<"result.h5", "result.log">>
      ]_vars

\* C11 witness: stage 5 has reported the two paths for a Kagome lattice
\* with a transverse field, after stages 1 to 4.
C11_Witness ==
    /\ Succeeded("run")
    /\ reported = <<"result.h5", "result.log">>
    /\ ModelParamsOf(Doc)["lattice"] = "Kagome"
    /\ Get(ModelParamsOf(Doc), "hx", 0) = 1
    /\ HasProductState(Doc)

-----------------------------------------------------------------------------
\* C12: a load that follows a persist of document d returns d; a load of
\* an absent path returns the empty document and leaves the path holding
\* text that loads as the empty document; a load that follows a load
\* returns the same document and leaves the file as it is.
C12_StoreRoundTrip ==
    [][ (lastCall'.stage = "load") =>
        /\ (lastCall.stage = "persist") => (loaded' = lastCall.data)
        /\ (~yamlFile.exists) =>
              /\ loaded' = EmptyDoc
              /\ yamlFile'.exists
              /\ load_yaml_value(yamlFile') = EmptyDoc
        /\ (lastCall.stage = "load") =>
              (loaded' = loaded /\ yamlFile' = yamlFile)
      ]_vars

\* C12 witness: the staged document, with its float tolerance, its boolean
\* and its parameter named "1", has been persisted and loaded back.
C12_Witness ==
    /\ lastCall.stage = "load"
    /\ loaded = StagedDoc
    /\ yamlFile.exists

-----------------------------------------------------------------------------
\* The update of a call is in the document.
Kept(call, data) ==
    CASE call.stage = "lattice" ->
            /\ Section(data, "model_class") = <<MODEL_CLASS>>
            /\ Get(ModelParamsOf(data), "lattice", "") = call.lattice_type
      [] call.stage = "model" ->
            \A k \in DOMAIN call.params_dict :
                /\ Has(ModelParamsOf(data), k)
                /\ ModelParamsOf(data)[k] = call.params_dict[k]
      [] call.stage = "dmrg_config" ->
            /\ Has(data, "algorithm_params")
            /\ data["algorithm_params"]["trunc_params"]["chi_max"] = call.chi_max
            /\ data["algorithm_params"]["max_sweeps"] = call.max_sweeps
            /\ Has(data, "output_filename_params")

\* Both callers' calls have returned without an error.
BothReturnedOk == \A c \in Callers : calls[c].pc = "returned" /\ calls[c].result = "ok"

\* C13: when two calls of different stages on one path have both returned
\* without error and neither loaded while the other held loaded data (a
\* serial execution), the document holds both updates.  The witness is the
\* interleaved execution (both load, then both dump) that loses one.
C13_SerialKeepsBoth ==
    ( /\ BothReturnedOk
      /\ ~overlapped
      /\ calls["a"].call.stage # calls["b"].call.stage )
    => \A c \in Callers : Kept(calls[c].call, Doc)

\* C13 witness: stage 2 with hx = 1 and stage 4 have both returned without
\* error after both loaded before either dumped, and the document holds
\* stage 4's sections but not the coupling hx.
C13_Witness ==
    /\ BothReturnedOk
    /\ overlapped
    /\ calls["a"].call = [stage |-> "model", params_dict |-> [hx |-> 1]]
    /\ calls["b"].call.stage = "dmrg_config"
    /\ Kept(calls["b"].call, Doc)
    /\ ~Has(ModelParamsOf(Doc), "hx")

-----------------------------------------------------------------------------
\* C14: a stage 1 call succeeds exactly when its lattice type is Chain or
\* one of Square, Triangular, Honeycomb, Kagome, its primary boundary
\* condition is open or periodic and, for a 2-D type, so is its secondary
\* one; an unknown type fails with InvalidLatticeType whatever the boundary
\* conditions are, any other failure is InvalidBoundaryCondition; a
\* successful 1-D call writes the extent as L and neither Ly nor bc_y.
C14_LatticeValidation ==
    [][ (lastCall'.stage = "lattice") =>
        LET c == lastCall'
            known1D == c.lattice_type \in {"Chain"}
            known2D == c.lattice_type \in
                          {"Square", "Triangular", "Honeycomb", "Kagome"}
            bcOk(b) == b \in {"open", "periodic"}
            valid == /\ known1D \/ known2D
                     /\ bcOk(c.bc_x)
                     /\ known2D => bcOk(c.bc_y)
        IN  /\ (result' = "ok") <=> valid
            /\ ~(known1D \/ known2D) => (result' = "InvalidLatticeType")
            /\ ((known1D \/ known2D) /\ ~valid) =>
                  (result' = "InvalidBoundaryCondition")
            /\ (result' = "ok" /\ known1D) =>
                  /\ ModelParamsOf(DocAfter)["L"] = c.Lx
                  /\ ~Has(ModelParamsOf(DocAfter), "Ly")
                  /\ ~Has(ModelParamsOf(DocAfter), "bc_y")
      ]_vars

\* C14 witness: a chain call with a secondary boundary condition that is
\* not allowed has succeeded, on a document an earlier 2-D call wrote to.
C14_Witness ==
    /\ Succeeded("lattice")
    /\ lastCall.lattice_type = "Chain"
    /\ lastCall.bc_y = "twisted"
    /\ HasProductState(Doc)
    /\ Len(ProductStateOf(Doc).shape) = 3

-----------------------------------------------------------------------------
\* C15: a product_state that stage 3 persists when called with no charge
\* has N labels for the N sites of the lattice, fewer than N of them "up"
\* and the others, at least one, "down".
C15_DrawnCounts ==
    [][ ( /\ lastCall'.stage = "initial_state"
          /\ lastCall'.tot_charge = <<>>
          /\ result' = "ok" )
        =>
        LET N == N_sites(ModelParamsOf(Doc))
            labels == ProductStateOf(DocAfter).flat
        IN  /\ Len(labels) = N
            /\ NumUp(labels) < N
            /\ NumDown(labels) = N - NumUp(labels)
            /\ NumDown(labels) >= 1
      ]_vars

\* C15 witness: stage 3 with no charge has persisted four "down" labels on
\* a four-site lattice.
C15_Witness ==
    /\ Succeeded("initial_state")
    /\ lastCall.tot_charge = <<>>
    /\ N_sites(ModelParamsOf(Doc)) = 4
    /\ Len(ProductStateOf(Doc).flat) = 4
    /\ NumDown(ProductStateOf(Doc).flat) = 4

-----------------------------------------------------------------------------
\* C16: a stage 3 call with a charge that is not a multiple of 0.5 fails
\* with InvalidCharge and leaves the file as it is, whatever the document
\* holds; any other stage 3 call on a document whose model builds with a
\* conservation law other than Sz and none fails with
\* UnsupportedConservationLaw, charge given or not, and leaves
\* initial_state_params as it was.
C16_UnsupportedLaw ==
    [][ (lastCall'.stage = "initial_state") =>
        LET tc == lastCall'.tot_charge
            halves == (tc = <<>>) \/ (tc[1] % 5 = 0)
            mp == ModelParamsOf(Doc)
        IN  /\ ~halves => (result' = "InvalidCharge" /\ file' = file)
            /\ ( /\ halves
                 /\ Has(Doc, "model_class")
                 /\ ModelBuilds(mp)
                 /\ SiteConserve(mp) \notin {"Sz", "None"} )
               => /\ result' = "UnsupportedConservationLaw"
                  /\ Section(DocAfter, "initial_state_params")
                       = Section(Doc, "initial_state_params")
      ]_vars

\* C16 witness: stage 3 with no charge has failed on a parity-conserving
\* model, on a document that holds an earlier initial state.
C16_Witness ==
    /\ lastCall.stage = "initial_state"
    /\ lastCall.tot_charge = <<>>
    /\ result = "UnsupportedConservationLaw"
    /\ SiteConserve(ModelParamsOf(Doc)) = "parity"
    /\ HasProductState(Doc)

-----------------------------------------------------------------------------
\* C17: algorithm_params of a persisted document has max_sweeps >= 1 and
\* trunc_params.chi_max >= 1 (a stage 4 call with a bond-dimension cap or a
\* sweep count below 1 fails and writes nothing).
C17_KnobsPositive ==
    Has(Doc, "algorithm_params") =>
        /\ Doc["algorithm_params"]["max_sweeps"] >= 1
        /\ Doc["algorithm_params"]["trunc_params"]["chi_max"] >= 1

-----------------------------------------------------------------------------
\* C18: a successful stage 4 call with cap chi and sweep count n leaves
\* algorithm_params exactly {algorithm: "TwoSiteDMRGEngine", max_sweeps: n,
\* mixer: false, trunc_params: {chi_max: chi, svd_min: 1e-8}} and
\* output_filename_params exactly {prefix: "result", suffix: ".h5"},
\* whatever the two sections held, and leaves model_class, model_params and
\* initial_state_params as they were.
C18_SolverSections ==
    [][ (lastCall'.stage = "dmrg_config" /\ result' = "ok") =>
        /\ Section(DocAfter, "algorithm_params") =
              << [algorithm |-> "TwoSiteDMRGEngine",
                  max_sweeps |-> lastCall'.max_sweeps,
                  mixer |-> FALSE,
                  trunc_params |-> [chi_max |-> lastCall'.chi_max,
                                    svd_min |-> "1e-8"]] >>
        /\ Section(DocAfter, "output_filename_params") =
              << [prefix |-> "result", suffix |-> ".h5"] >>
        /\ \A k \in {"model_class", "model_params", "initial_state_params"} :
              Section(DocAfter, k) = Section(Doc, k)
      ]_vars

\* C18 witness: stage 4 with cap 2 and one sweep has succeeded on a
\* document that held the sections of an earlier stage 4 call and an
\* initial state, and has been repeated.
C18_Witness ==
    /\ Succeeded("dmrg_config")
    /\ repeated
    /\ lastCall.chi_max = 2
    /\ Doc["algorithm_params"]["trunc_params"]["chi_max"] = 2
    /\ HasProductState(Doc)

-----------------------------------------------------------------------------
\* The top-level sections of the document.
Sections ==
    {"model_class", "model_params", "initial_state_params", "algorithm_params",
     "output_filename_params"}

\* C19: no call of stage 1 to 5, successful or failing, removes the file
\* or a top-level section that the persisted document holds.
C19_SectionsStay ==
    [][ /\ file.exists => file'.exists
        /\ \A k \in Sections : Has(Doc, k) => Has(DocAfter, k)
      ]_vars

\* C19 witness: stage 1 has succeeded again on a document that holds all
\* five sections.
C19_Witness ==
    /\ Succeeded("lattice")
    /\ repeated
    /\ \A k \in Sections : Has(Doc, k)

-----------------------------------------------------------------------------
\* C20: model_class enters the document only by a successful stage 1 call;
\* a document holds initial_state_params only when it holds model_class;
\* and a stage 3 call on a document without model_class fails and leaves
\* the document without initial_state_params.
C20_StateAfterLattice ==
    [][ /\ (~Has(Doc, "model_class") /\ Has(DocAfter, "model_class")) =>
              (lastCall'.stage = "lattice" /\ result' = "ok")
        /\ Has(DocAfter, "initial_state_params") => Has(DocAfter, "model_class")
        /\ (lastCall'.stage = "initial_state" /\ ~Has(Doc, "model_class")) =>
              (result' # "ok" /\ ~Has(DocAfter, "initial_state_params"))
      ]_vars

\* C20 witness: stage 3 with charge 0 has failed on a document that stages
\* 2 and 4 wrote to and stage 1 did not.
C20_Witness ==
    /\ lastCall.stage = "initial_state"
    /\ lastCall.tot_charge = <<0>>
    /\ result = "KeyError"
    /\ Has(Doc, "model_params")
    /\ Has(Doc, "algorithm_params")
    /\ ~Has(Doc, "model_class")
    /\ ~Has(Doc, "initial_state_params")

-----------------------------------------------------------------------------
\* The sessions in the store.
Stored == DOMAIN connections

\* C21: a client runs a command only in an exec_command call on a session
\* id that is in the store and maps to that client; an exec_command on a
\* session id that close_connection has removed returns the
\* no-active-connection message and runs nothing; a close_connection on
\* such an id returns the nothing-to-close message and leaves the store and
\* the clients as they are.
C21_SessionLifecycle ==
    [][ /\ \A h \in DOMAIN clients :
              (clients'[h].executed # clients[h].executed) =>
                  /\ sshCall'.op = "exec"
                  /\ sshCall'.session_id \in Stored
                  /\ connections[sshCall'.session_id] = h
                  /\ clients[h].open
        /\ (sshCall'.op = "exec" /\ sshCall'.session_id \in sshHistory.closed) =>
              /\ sshCall'.ret = "no_active"
              /\ clients' = clients
              /\ connections' = connections
        /\ (sshCall'.op = "close" /\ sshCall'.session_id \in sshHistory.closed) =>
              /\ sshCall'.ret = "nothing_to_close"
              /\ clients' = clients
              /\ connections' = connections
      ]_vars

\* C21 witness: an exec_command on a session that ran a command and was
\* then closed has returned the no-active-connection message, while another
\* session is in the store.
C21_Witness ==
    /\ sshCall.op = "exec"
    /\ sshCall.ret = "no_active"
    /\ sshCall.session_id \in sshHistory.closed
    /\ clients[sshCall.session_id].executed # {}
    /\ Stored # {}

-----------------------------------------------------------------------------
\* C22: the stored session ids are the ids returned by successful
\* create_connection calls and not closed since; a failed create_connection
\* leaves the store as it is, a successful one adds one id that was never
\* returned before, and close_connection(s) removes s alone and closes the
\* client of s alone.
C22_StoreContents ==
    [][ /\ DOMAIN connections' = sshHistory'.returned \ sshHistory'.closed
        /\ (sshCall'.op = "create" /\ sshCall'.ret = "connect_failed") =>
              (connections' = connections /\ clients' = clients)
        /\ (sshCall'.op = "create" /\ sshCall'.ret = "connected") =>
              /\ sshCall'.session_id \notin sshHistory.returned
              /\ DOMAIN connections' = Stored \cup {sshCall'.session_id}
              /\ Cardinality(DOMAIN connections') = Cardinality(Stored) + 1
              /\ \A t \in Stored : connections'[t] = connections[t]
              /\ \A h \in DOMAIN clients : clients'[h] = clients[h]
        /\ (sshCall'.op = "close") =>
              /\ DOMAIN connections' = Stored \ {sshCall'.session_id}
              /\ \A t \in DOMAIN connections' : connections'[t] = connections[t]
              /\ \A h \in DOMAIN clients :
                    (~(sshCall'.session_id \in Stored
                       /\ connections[sshCall'.session_id] = h)) =>
                        clients'[h] = clients[h]
              /\ \A t \in DOMAIN connections' : clients'[connections'[t]].open
      ]_vars

\* C22 witness: close_connection has closed one of three sessions; the
\* other two are in the store with their clients open.
C22_Witness ==
    /\ sshCall.op = "close"
    /\ sshCall.ret = "closed"
    /\ ~clients[sshCall.session_id].open
    /\ Cardinality(Stored) = 2
    /\ \A t \in Stored : clients[connections[t]].open

====
